---- MODULE Spec2Model ----
(***************************************************************************)
(* A model of the ammeter testing framework: the device client             *)
(* (framework/unified_api.py), the fault injector (framework/faults.py),   *)
(* the sampler (framework/sampler.py) and the project runner               *)
(* (framework/runner.py, framework/config_loader.py).                      *)
(*                                                                         *)
(* Conventions.  Every duration and clock reading is an integer number of  *)
(* milliseconds.  Optional[T] is a sequence: <<>> is None, <<v>> is v.     *)
(* A text is a sequence of atoms (characters or indivisible words), so     *)
(* that strip(), startswith() and float() are computed, not tabulated.     *)
(* A probability is a numerator over RollDen, and a draw of                *)
(* random.random() is a numerator in 0..RollDen-1 over RollDen.            *)
(***************************************************************************)
EXTENDS Integers, Sequences, FiniteSets, TLC

VARIABLES
    raw,        \* the YAML mapping handed to parse_config
    env,        \* what the devices and the host may do in this run
    cfg,        \* ProjectConfig built by parse_config
    pc,         \* position of the control flow
    now,        \* time.monotonic()
    t_start,    \* Sampler.run: t_start
    n,          \* Sampler.run: tick index n
    idx,        \* Sampler.run: 1-based position of the for loop over clients
    tick_at,    \* ghost: clock reading when the polls of the current tick began
    out,        \* Sampler.run: out, the Measurement sequence
    log,        \* ghost: per appended Measurement, its tick and exchange
    files,      \* names of the files run_project has written
    agent,      \* whether the DogStatsD agent's socket takes a datagram
    sent,       \* the metric datagrams handed to the agent so far
    summary,    \* run_project: the analysis results written to summary.json
    wire,       \* the socket calls of the latest measure()
    m_in,       \* unit harness: the argument of the function under study
    m_out       \* unit harness: its result

vars == <<raw, env, cfg, pc, now, t_start, n, idx, tick_at, out, log, files, agent, sent,
          summary, wire, m_in, m_out>>

-----------------------------------------------------------------------------
(* Bounds of the model *)

MaxCount == 2
MaxDurSteps == 2
MaxLatency == 400
RollDen == 2
MaxDelayMs == 2
ClockOrigin == 3
EpochOffset == 50

\* Significant bits of a float.
MantissaBits == 4

\* Longest series of one device handed to the analysis functions.
MaxSeries == 3

\* Ticks of a run of the scheduling specification that stops on its count.
MaxTicks == 3

(* Program constants *)

MsPerSecond == 1000
DefaultOutlierScale == 5

-----------------------------------------------------------------------------
(* Optional values and small helpers *)

None == <<>>

Some(v) == <<v>>

IsNone(o) == o = <<>>

Max(a, b) == IF a >= b THEN a ELSE b

Min(a, b) == IF a <= b THEN a ELSE b

Range(s) == {s[i] : i \in 1..Len(s)}

-----------------------------------------------------------------------------
(* Floating point.  A float is a fraction <<a, b>> in lowest terms, b > 0,  *)
(* whose value has at most MantissaBits significant bits.  Every operation  *)
(* on floats is the exact operation followed by one rounding to the nearest *)
(* float, ties to even, as IEEE 754 arithmetic does with 53 bits.           *)

Abs(x) == IF x < 0 THEN 0 - x ELSE x

RECURSIVE GCD(_, _)
GCD(a, b) == IF b = 0 THEN a ELSE GCD(b, a % b)

\* The fraction a / b in lowest terms (b > 0).
Frac(a, b) ==
    LET g == GCD(Abs(a), b)
    IN  IF a = 0 THEN <<0, 1>> ELSE <<(Abs(a) \div g) * (IF a < 0 THEN -1 ELSE 1), b \div g>>

FromInt(i) == <<i, 1>>

Zero == FromInt(0)

One == FromInt(1)

QAdd(x, y) == Frac(x[1] * y[2] + y[1] * x[2], x[2] * y[2])

QNeg(x) == <<0 - x[1], x[2]>>

QSub(x, y) == QAdd(x, QNeg(y))

QMul(x, y) == Frac(x[1] * y[1], x[2] * y[2])

\* x / y for y # 0.
QDiv(x, y) ==
    IF y[1] < 0 THEN Frac((0 - x[1]) * y[2], x[2] * (0 - y[1]))
    ELSE Frac(x[1] * y[2], x[2] * y[1])

QLeq(x, y) == x[1] * y[2] <= y[1] * x[2]

QAbs(x) == <<Abs(x[1]), x[2]>>

\* m * 2^e as a fraction.
Scaled(m, e) == IF e < 0 THEN Frac(m, 2 ^ (0 - e)) ELSE Frac(m * (2 ^ e), 1)

\* The exponent e, in steps of the factor base (2, or 4 under a square
\* root), that brings a / b into lo <= a / (b * base^e) < base * lo.
RECURSIVE Exponent(_, _, _, _)
Exponent(a, b, base, lo) ==
    IF a >= base * lo * b THEN Exponent(a, base * b, base, lo) + 1
    ELSE IF a < lo * b THEN Exponent(base * a, b, base, lo) - 1
    ELSE 0

\* Round the fraction q to the nearest float, ties to even.
Round(q) ==
    IF q[1] = 0 THEN Zero
    ELSE LET a == Abs(q[1])
             b == q[2]
             num(e) == IF e < 0 THEN a * (2 ^ (0 - e)) ELSE a
             den(e) == IF e < 0 THEN b ELSE b * (2 ^ e)
             e == Exponent(a, b, 2, 2 ^ (MantissaBits - 1))
             fl == num(e) \div den(e)
             rem == num(e) - fl * den(e)
             m == IF 2 * rem > den(e) THEN fl + 1
                  ELSE IF 2 * rem < den(e) THEN fl
                  ELSE IF fl % 2 = 0 THEN fl ELSE fl + 1
             r == Scaled(m, e)
         IN  IF q[1] < 0 THEN QNeg(r) ELSE r

\* math.sqrt: the square root of the fraction q >= 0, rounded once.
FSqrt(q) ==
    IF q[1] = 0 THEN Zero
    ELSE LET a == q[1]
             b == q[2]
             num(e) == IF e < 0 THEN a * (4 ^ (0 - e)) ELSE a
             den(e) == IF e < 0 THEN b ELSE b * (4 ^ e)
             e == Exponent(a, b, 4, 4 ^ (MantissaBits - 1))
             fl == CHOOSE m \in (2 ^ (MantissaBits - 1))..((2 ^ MantissaBits) - 1) :
                       /\ m * m * den(e) <= num(e)
                       /\ (m + 1) * (m + 1) * den(e) > num(e)
             half == (2 * fl + 1) * (2 * fl + 1) * den(e)
             m == IF half < 4 * num(e) THEN fl + 1
                  ELSE IF half > 4 * num(e) THEN fl
                  ELSE IF fl % 2 = 0 THEN fl ELSE fl + 1
         IN  Scaled(m, e)

FAdd(x, y) == Round(QAdd(x, y))

FSub(x, y) == Round(QSub(x, y))

FMul(x, y) == Round(QMul(x, y))

FDiv(x, y) == Round(QDiv(x, y))

\* float(i) of an integer i.
Float(i) == Round(FromInt(i))

-----------------------------------------------------------------------------
(* Texts: str.strip, str.startswith, float *)

Whitespace == {" ", "\n"}

Digits == <<"0", "1", "2", "3", "4", "5", "6", "7", "8", "9">>

ErrorPrefix == <<"ERROR:">>

RECURSIVE LStrip(_)
LStrip(s) ==
    IF s # <<>> /\ Head(s) \in Whitespace THEN LStrip(Tail(s)) ELSE s

RECURSIVE RStrip(_)
RStrip(s) ==
    IF s # <<>> /\ s[Len(s)] \in Whitespace THEN RStrip(SubSeq(s, 1, Len(s) - 1)) ELSE s

Strip(s) == RStrip(LStrip(s))

StartsWith(s, prefix) ==
    /\ Len(s) >= Len(prefix)
    /\ SubSeq(s, 1, Len(prefix)) = prefix

DigitValue(c) == (CHOOSE i \in 1..10 : Digits[i] = c) - 1

IsDigit(c) == \E i \in 1..10 : Digits[i] = c

RECURSIVE DigitsValue(_)
DigitsValue(s) ==
    IF s = <<>> THEN 0
    ELSE 10 * DigitsValue(SubSeq(s, 1, Len(s) - 1)) + DigitValue(s[Len(s)])

\* float(resp) for the texts of the model: an optionally signed run of
\* digits parses, anything else raises ValueError (None here).
ParseFloat(s) ==
    LET body == IF s # <<>> /\ Head(s) \in {"-", "+"} THEN Tail(s) ELSE s
        neg == s # <<>> /\ Head(s) = "-"
    IN  IF body # <<>> /\ \A i \in 1..Len(body) : IsDigit(body[i])
        THEN Some(IF neg THEN 0 - DigitsValue(body) ELSE DigitsValue(body))
        ELSE None

-----------------------------------------------------------------------------
(* unified_api.py: Measurement and AmmeterClient.measure *)

Measurement(ammeter, timestamp_monotonic, wall_time_epoch, value_a, latency_s, ok, error) ==
    [ammeter |-> ammeter,
     timestamp_monotonic |-> timestamp_monotonic,
     wall_time_epoch |-> wall_time_epoch,
     value_a |-> value_a,
     latency_s |-> latency_s,
     ok |-> ok,
     error |-> error]

\* time.time() read at the instant time.monotonic() reads t.
WallClock(t) == t + EpochOffset

\* repr(e) of the exception a failed exchange or a failed float() raises.
ReprOf(exc) == <<exc>>

\* One exchange with a device: exc is the exception the socket calls raise
\* ("" when none is raised), data the bytes recv returns.
Exchange(exc, data) == [exc |-> exc, data |-> data]

EscapesTimeout(x) == x.exc = "timeout"

\* The exceptions of an exchange that measure() lets propagate: none, its
\* "except Exception" turns every one into a failed Measurement.
Escapes(x) == FALSE

MeasureWithoutEmptyCheck(name, x, t0, lat) ==
    LET epoch == WallClock(t0)
        resp == Strip(x.data)
        value == ParseFloat(resp)
        failed(err) == Measurement(name, t0, epoch, None, lat, FALSE, Some(err))
    IN  IF x.exc # "" THEN failed(ReprOf(x.exc))
        ELSE IF StartsWith(resp, ErrorPrefix) THEN failed(resp)
        ELSE IF IsNone(value) THEN failed(ReprOf("ValueError"))
        ELSE Measurement(name, t0, epoch, value, lat, TRUE, None)

Measure(name, x, t0, lat) ==
    LET epoch == WallClock(t0)
        resp == Strip(x.data)
        value == ParseFloat(resp)
        failed(err) == Measurement(name, t0, epoch, None, lat, FALSE, Some(err))
    IN  IF x.exc # "" THEN failed(ReprOf(x.exc))
        ELSE IF x.data = <<>> THEN failed(<<"no_data">>)
        ELSE IF StartsWith(resp, ErrorPrefix) THEN failed(resp)
        ELSE IF IsNone(value) THEN failed(ReprOf("ValueError"))
        ELSE Measurement(name, t0, epoch, value, lat, TRUE, None)

-----------------------------------------------------------------------------
(* faults.py: FaultInjector.apply *)

\* The draws one call of apply may consume.
Rolls(drop, delay, delay_ms, corrupt, outlier) ==
    [drop |-> drop, delay |-> delay, delay_ms |-> delay_ms,
     corrupt |-> corrupt, outlier |-> outlier]

\* random.randint(delay_ms_min, max(delay_ms_min, delay_ms_max))
DelayRange(fc) == fc.delay_ms_min .. Max(fc.delay_ms_min, fc.delay_ms_max)

\* A disabled injector returns before it draws anything.
RollSet(fc) ==
    IF ~fc.enabled THEN {Rolls(0, 0, fc.delay_ms_min, 0, 0)}
    ELSE {Rolls(a, b, d, c, o) : a \in 0..(RollDen - 1), b \in 0..(RollDen - 1),
                                 d \in DelayRange(fc),
                                 c \in 0..(RollDen - 1), o \in 0..(RollDen - 1)}

DropFiresInverted(fc, r) == r.drop > fc.drop_prob

DropFires(fc, r) == r.drop < fc.drop_prob

DelayFires(fc, r) == r.delay < fc.delay_prob

CorruptFires(fc, r) == r.corrupt < fc.corrupt_prob

OutlierFires(fc, m, r) == m.ok /\ ~IsNone(m.value_a) /\ r.outlier < fc.outlier_prob

Dropped(m) ==
    Measurement(m.ammeter, m.timestamp_monotonic, m.wall_time_epoch,
                None, m.latency_s, FALSE, Some(<<"fault_drop">>))

DelayedForgetsLatency(m, delay_ms) ==
    Measurement(m.ammeter, m.timestamp_monotonic, m.wall_time_epoch,
                m.value_a, delay_ms, m.ok, m.error)

Delayed(m, delay_ms) ==
    Measurement(m.ammeter, m.timestamp_monotonic, m.wall_time_epoch,
                m.value_a, m.latency_s + delay_ms, m.ok, m.error)

CorruptedKeepsValue(m) ==
    Measurement(m.ammeter, m.timestamp_monotonic, m.wall_time_epoch,
                m.value_a, m.latency_s, FALSE, Some(<<"fault_corrupt">>))

Corrupted(m) ==
    Measurement(m.ammeter, m.timestamp_monotonic, m.wall_time_epoch,
                None, m.latency_s, FALSE, Some(<<"fault_corrupt">>))

AmplifiedUnscaled(fc, m) ==
    Measurement(m.ammeter, m.timestamp_monotonic, m.wall_time_epoch,
                m.value_a, m.latency_s, TRUE, Some(<<"fault_outlier">>))

Amplified(fc, m) ==
    Measurement(m.ammeter, m.timestamp_monotonic, m.wall_time_epoch,
                Some(m.value_a[1] * fc.outlier_scale), m.latency_s, TRUE,
                Some(<<"fault_outlier">>))

\* time.sleep raises ValueError for a negative length: apply returns nothing.
ApplyRaises(fc, r) ==
    fc.enabled /\ ~DropFires(fc, r) /\ DelayFires(fc, r) /\ r.delay_ms < 0

\* The time apply spends in time.sleep.
ApplySlept(fc, m, r) ==
    IF fc.enabled /\ ~DropFires(fc, r) /\ DelayFires(fc, r) THEN r.delay_ms ELSE 0

ApplyOutlierBeforeCorrupt(fc, m, r) ==
    IF ~fc.enabled THEN m
    ELSE IF DropFires(fc, r) THEN Dropped(m)
    ELSE LET d == IF DelayFires(fc, r) THEN Delayed(m, r.delay_ms) ELSE m
         IN  IF OutlierFires(fc, d, r) THEN Amplified(fc, d)
             ELSE IF CorruptFires(fc, r) THEN Corrupted(d)
             ELSE d

ApplyIgnoringEnabled(fc, m, r) ==
    IF DropFires(fc, r) THEN Dropped(m)
    ELSE LET d == IF DelayFires(fc, r) THEN Delayed(m, r.delay_ms) ELSE m
         IN  IF CorruptFires(fc, r) THEN Corrupted(d)
             ELSE IF OutlierFires(fc, d, r) THEN Amplified(fc, d)
             ELSE d

Apply(fc, m, r) ==
    IF ~fc.enabled THEN m
    ELSE IF DropFires(fc, r) THEN Dropped(m)
    ELSE LET d == IF DelayFires(fc, r) THEN Delayed(m, r.delay_ms) ELSE m
         IN  IF CorruptFires(fc, r) THEN Corrupted(d)
             ELSE IF OutlierFires(fc, d, r) THEN Amplified(fc, d)
             ELSE d

-----------------------------------------------------------------------------
(* config_loader.py: parse_config *)

Names == <<"greenlee", "entes", "circutor">>

\* dict.get("port") / a["port"]: an entry is "absent", "ok", or lacks a key.
EntryStates == {"absent", "ok", "no_port", "no_command"}

FaultInjectionCfg(enabled, drop_prob, delay_prob, delay_ms_min, delay_ms_max, corrupt_prob, outlier_prob, outlier_scale) ==
    [enabled |-> enabled, drop_prob |-> drop_prob, delay_prob |-> delay_prob,
     delay_ms_min |-> delay_ms_min, delay_ms_max |-> delay_ms_max,
     corrupt_prob |-> corrupt_prob, outlier_prob |-> outlier_prob,
     outlier_scale |-> outlier_scale]

\* FaultInjectionCfg(): the dataclass defaults, used when the YAML has no
\* fault_injection section.
DefaultFaultCfg == FaultInjectionCfg(FALSE, 0, 0, 0, 0, 0, 0, DefaultOutlierScale)

\* DatadogCfg: host, port and namespace only address and name the datagrams.
DatadogCfg(enabled) == [enabled |-> enabled]

\* DatadogCfg(): the dataclass defaults, used when the YAML has no datadog
\* section.
DefaultDatadogCfg == DatadogCfg(FALSE)

SamplingCfg(measurements_count, total_duration_seconds, sampling_frequency_hz) ==
    [measurements_count |-> measurements_count,
     total_duration_seconds |-> total_duration_seconds,
     sampling_frequency_hz |-> sampling_frequency_hz]

\* a["port"], a["command"] raise KeyError for an entry that lacks the key.
ParseRaises(r) ==
    \E i \in 1..Len(Names) : r.ammeters[Names[i]] \in {"no_port", "no_command"}

RECURSIVE ParseAmmeters(_, _)
ParseAmmeters(r, i) ==
    IF i > Len(Names) THEN <<>>
    ELSE IF r.ammeters[Names[i]] = "absent" THEN ParseAmmeters(r, i + 1)
    ELSE <<Names[i]>> \o ParseAmmeters(r, i + 1)

ParseConfig(r) ==
    [ammeters |-> ParseAmmeters(r, 1),
     sampling |-> SamplingCfg(r.measurements_count, r.total_duration_seconds,
                              r.sampling_frequency_hz),
     visualization |-> r.visualization,
     save_format |-> r.save_format,
     datadog |-> IF "datadog" \in DOMAIN r THEN r.datadog ELSE DefaultDatadogCfg,
     fault_injection |-> r.fault_injection]

-----------------------------------------------------------------------------
(* sampler.py: Sampler *)

SamplerRejectsNegative(sampling) == sampling.sampling_frequency_hz < 0

\* Sampler.__init__ raises ValueError.
SamplerRejects(sampling) == sampling.sampling_frequency_hz <= 0

\* period_s = 1.0 / sampling_frequency_hz, in milliseconds.
period_s(sampling) == MsPerSecond \div sampling.sampling_frequency_hz

CountReachedLate(sampling, tick) ==
    /\ ~IsNone(sampling.measurements_count)
    /\ tick > sampling.measurements_count[1]

CountReached(sampling, tick) ==
    /\ ~IsNone(sampling.measurements_count)
    /\ tick >= sampling.measurements_count[1]

DurationReachedStrictly(sampling, elapsed) ==
    /\ ~IsNone(sampling.total_duration_seconds)
    /\ elapsed > sampling.total_duration_seconds[1]

DurationReached(sampling, elapsed) ==
    /\ ~IsNone(sampling.total_duration_seconds)
    /\ elapsed >= sampling.total_duration_seconds[1]

StopNowCountFirst ==
    IF ~IsNone(cfg.sampling.measurements_count) THEN CountReached(cfg.sampling, n)
    ELSE DurationReached(cfg.sampling, now - t_start)

\* The two exit tests at the top of the loop.
StopNow == CountReached(cfg.sampling, n) \/ DurationReached(cfg.sampling, now - t_start)

HasStopCondition(sampling) ==
    ~IsNone(sampling.measurements_count) \/ ~IsNone(sampling.total_duration_seconds)

\* Ticks the model records of a run that has no stop condition.
MaxFreeTicks == 2

\* Sampler.run: `while True` with neither stop condition set never leaves the
\* loop. After MaxFreeTicks ticks the loop goes on, and the model holds n,
\* the clock and the output where they are: neither exit test reads them
\* when both limits are None.
FreeRunning == ~HasStopCondition(cfg.sampling) /\ n >= MaxFreeTicks

TargetOfRelative(tick) ==
    IF tick = 0 THEN t_start ELSE now + period_s(cfg.sampling)

\* target_t = t_start + n * self.period_s
TargetOf(tick) == t_start + tick * period_s(cfg.sampling)

SleepForDistance(target, t) == IF target - t > 0 THEN target - t ELSE t - target

\* sleep_s = target_t - now; time.sleep(sleep_s) only if sleep_s > 0.
SleepFor(target, t) == IF target - t > 0 THEN target - t ELSE 0

NumClients == Len(cfg.ammeters)

ClientAtReversed(i) == cfg.ammeters[NumClients - i + 1]

\* "for c in self.clients": the client of the i-th pass (run_project builds
\* the clients in the order of cfg.ammeters).
ClientAt(i) == cfg.ammeters[i]

-----------------------------------------------------------------------------
(* datadog_metrics.py: DogStatsd, and the metrics block of Sampler.run *)

\* DogStatsd._metric: one datagram.
Metric(name, mtype, value, ammeter) ==
    [name |-> name, mtype |-> mtype, value |-> value, ammeter |-> ammeter]

MetricsForFailedWithoutTiming(m) ==
    IF m.ok /\ ~IsNone(m.value_a)
    THEN <<Metric("current_a", "g", m.value_a[1], m.ammeter),
           Metric("measure_ok", "c", 1, m.ammeter),
           Metric("latency_ms", "ms", m.latency_s, m.ammeter)>>
    ELSE <<Metric("measure_error", "c", 1, m.ammeter)>>

\* Sampler.run: the datagrams emitted for one appended Measurement.
MetricsFor(m) ==
    (IF m.ok /\ ~IsNone(m.value_a)
     THEN <<Metric("current_a", "g", m.value_a[1], m.ammeter),
            Metric("measure_ok", "c", 1, m.ammeter)>>
     ELSE <<Metric("measure_error", "c", 1, m.ammeter)>>)
    \o <<Metric("latency_ms", "ms", m.latency_s, m.ammeter)>>

\* socket.sendto raises OSError when the agent's socket refuses the datagram.
SendRaises(a) == a = "down"

SendEscapesWhenDown(a) == SendRaises(a)

\* DogStatsd._send lets no exception out: "except Exception: return".
SendEscapes(a) == FALSE

\* The datagrams that reach the agent.
Delivered(a, metrics) == IF SendRaises(a) THEN <<>> ELSE metrics

-----------------------------------------------------------------------------
(* analysis.py: compute_stats, stats_by_ammeter, _pearson,                  *)
(* pairwise_agreement                                                       *)

\* math.fsum: the exact sum, rounded once.
RECURSIVE QSum(_)
QSum(xs) == IF xs = <<>> THEN Zero ELSE QAdd(QSum(SubSeq(xs, 1, Len(xs) - 1)), xs[Len(xs)])

\* sum(...) over floats: one rounded addition per item, left to right.
RECURSIVE FSum(_)
FSum(xs) == IF xs = <<>> THEN Zero ELSE FAdd(FSum(SubSeq(xs, 1, Len(xs) - 1)), xs[Len(xs)])

\* statistics.fmean: fsum(data) / n.
fmean(xs) == FDiv(Round(QSum(xs)), FromInt(Len(xs)))

RECURSIVE Insert(_, _)
Insert(x, sorted) ==
    IF sorted = <<>> THEN <<x>>
    ELSE IF QLeq(x, Head(sorted)) THEN <<x>> \o sorted
    ELSE <<Head(sorted)>> \o Insert(x, Tail(sorted))

RECURSIVE Sorted(_)
Sorted(xs) == IF xs = <<>> THEN <<>> ELSE Insert(Head(xs), Sorted(Tail(xs)))

\* statistics.median.
median(xs) ==
    LET s == Sorted(xs)
        k == Len(xs) \div 2
    IN  IF Len(xs) % 2 = 1 THEN s[k + 1]
        ELSE FDiv(FAdd(s[k], s[k + 1]), FromInt(2))

\* statistics.pstdev: the square root of the exact population variance,
\* rounded once.
pstdev(xs) ==
    LET mean_q == QDiv(QSum(xs), FromInt(Len(xs)))
        sq == [i \in 1..Len(xs) |-> QMul(QSub(xs[i], mean_q), QSub(xs[i], mean_q))]
    IN  FSqrt(QDiv(QSum(sq), FromInt(Len(xs))))

\* min(values), max(values).
MinOf(xs) == Head(Sorted(xs))

MaxOf(xs) == Sorted(xs)[Len(xs)]

Stats(count, ok_count, mean, median_v, std_dev, min, max) ==
    [count |-> count, ok_count |-> ok_count, mean |-> mean, median |-> median_v,
     std_dev |-> std_dev, min |-> min, max |-> max]

compute_stats(values) ==
    IF values = <<>> THEN Stats(0, 0, None, None, None, None, None)
    ELSE Stats(Len(values), Len(values), Some(fmean(values)), Some(median(values)),
               Some(IF Len(values) >= 2 THEN pstdev(values) ELSE Zero),
               Some(MinOf(values)), Some(MaxOf(values)))

\* split_by_ammeter: the Measurements of each device that has any, in the
\* order of ms.
split_by_ammeter(ms) ==
    [name \in {ms[i].ammeter : i \in 1..Len(ms)} |->
        SelectSeq(ms, LAMBDA m : m.ammeter = name)]

\* [m.value_a for m in ms if m.ok and m.value_a is not None]
OkValues(ms) ==
    LET sel == SelectSeq(ms, LAMBDA m : m.ok /\ ~IsNone(m.value_a))
    IN  [i \in 1..Len(sel) |-> Float(sel[i].value_a[1])]

StatsCountingOkOnly(ms) ==
    LET by == split_by_ammeter(ms)
    IN  [name \in DOMAIN by |-> compute_stats(OkValues(by[name]))]

stats_by_ammeter(ms) ==
    LET by == split_by_ammeter(ms)
    IN  [name \in DOMAIN by |->
            LET vals == OkValues(by[name])
                s == compute_stats(vals)
            IN  Stats(Len(by[name]), Len(vals), s.mean, s.median, s.std_dev, s.min, s.max)]

Agreement(mae, rmse, correlation, paired_count) ==
    [mae |-> mae, rmse |-> rmse, correlation |-> correlation, paired_count |-> paired_count]

\* _pearson.
pearson(x, y) ==
    IF Len(x) < 2 \/ Len(y) < 2 THEN None
    ELSE LET mx == fmean(x)
             my == fmean(y)
             k == Min(Len(x), Len(y))
             num == FSum([i \in 1..k |-> FMul(FSub(x[i], mx), FSub(y[i], my))])
             denx == FSqrt(FSum([i \in 1..Len(x) |-> FMul(FSub(x[i], mx), FSub(x[i], mx))]))
             deny == FSqrt(FSum([i \in 1..Len(y) |-> FMul(FSub(y[i], my), FSub(y[i], my))]))
         IN  IF denx = Zero \/ deny = Zero THEN None
             ELSE Some(FDiv(num, FMul(denx, deny)))

\* sorted(by.keys()) lists the names in this order.
SortedNames == <<"circutor", "entes", "greenlee">>

PairwiseOverLastValues(ms) ==
    LET by == split_by_ammeter(ms)
        names == SelectSeq(SortedNames, LAMBDA name : name \in DOMAIN by)
        pairs == {<<names[i], names[j]>> : i \in 1..Len(names), j \in 1..Len(names)}
    IN  [pr \in {q \in pairs : \E i \in 1..Len(names), j \in 1..Len(names) :
                                  i < j /\ q = <<names[i], names[j]>>} |->
            LET xs0 == OkValues(by[pr[1]])
                ys0 == OkValues(by[pr[2]])
                k == Min(Len(xs0), Len(ys0))
                xs == SubSeq(xs0, Len(xs0) - k + 1, Len(xs0))
                ys == SubSeq(ys0, Len(ys0) - k + 1, Len(ys0))
                diffs == [i \in 1..k |-> QAbs(FSub(xs[i], ys[i]))]
                squares == [i \in 1..k |-> FMul(FSub(xs[i], ys[i]), FSub(xs[i], ys[i]))]
            IN  IF k = 0 THEN Agreement(None, None, None, 0)
                ELSE Agreement(Some(fmean(diffs)), Some(FSqrt(fmean(squares))),
                               pearson(xs, ys), k)]

pairwise_agreement(ms) ==
    LET by == split_by_ammeter(ms)
        names == SelectSeq(SortedNames, LAMBDA name : name \in DOMAIN by)
        pairs == {<<names[i], names[j]>> : i \in 1..Len(names), j \in 1..Len(names)}
    IN  [pr \in {q \in pairs : \E i \in 1..Len(names), j \in 1..Len(names) :
                                  i < j /\ q = <<names[i], names[j]>>} |->
            LET xs0 == OkValues(by[pr[1]])
                ys0 == OkValues(by[pr[2]])
                k == Min(Len(xs0), Len(ys0))
                xs == SubSeq(xs0, 1, k)
                ys == SubSeq(ys0, 1, k)
                diffs == [i \in 1..k |-> QAbs(FSub(xs[i], ys[i]))]
                squares == [i \in 1..k |-> FMul(FSub(xs[i], ys[i]), FSub(xs[i], ys[i]))]
            IN  IF k = 0 THEN Agreement(None, None, None, 0)
                ELSE Agreement(Some(fmean(diffs)), Some(FSqrt(fmean(squares))),
                               pearson(xs, ys), k)]

\* The keys of the dict split_by_ammeter builds, in insertion order: the
\* devices in the order they first occur in ms.
RECURSIVE FirstSeen(_)
FirstSeen(ms) ==
    IF ms = <<>> THEN <<>>
    ELSE LET before == FirstSeen(SubSeq(ms, 1, Len(ms) - 1))
             last == ms[Len(ms)].ammeter
         IN  IF last \in Range(before) THEN before ELSE Append(before, last)

\* The keys of the dict pairwise_agreement builds, in insertion order.
RECURSIVE PairsFrom(_, _, _)
PairsFrom(names, i, j) ==
    IF i > Len(names) THEN <<>>
    ELSE IF j > Len(names) THEN PairsFrom(names, i + 1, i + 2)
    ELSE <<(<<names[i], names[j]>>)>> \o PairsFrom(names, i, j + 1)

BaseScoreUndoubled(st) ==
    LET success == IF st.count # 0 THEN FDiv(Float(st.ok_count), Float(st.count)) ELSE Zero
        stability == FDiv(One, FAdd(One, IF IsNone(st.std_dev) THEN Zero ELSE st.std_dev[1]))
    IN  FAdd(Zero, FAdd(success, stability))

\* reliability_ranking: scores[n] after the first loop.
BaseScore(st) ==
    LET success == IF st.count # 0 THEN FDiv(Float(st.ok_count), Float(st.count)) ELSE Zero
        stability == FDiv(One, FAdd(One, IF IsNone(st.std_dev) THEN Zero ELSE st.std_dev[1]))
    IN  FAdd(Zero, FAdd(FMul(Float(2), success), stability))

\* reliability_ranking: 1.0 / (1.0 + ag.rmse) of each agreement in turn,
\* none for an agreement without rmse.
RECURSIVE Bonuses(_, _, _)
Bonuses(pairs, agreements, k) ==
    IF k > Len(pairs) THEN <<>>
    ELSE LET ag == agreements[pairs[k]]
         IN  <<(IF IsNone(ag.rmse) THEN None ELSE Some(FDiv(One, FAdd(One, ag.rmse[1]))))>>
             \o Bonuses(pairs, agreements, k + 1)

\* reliability_ranking: scores[name] after the first k agreements.
RECURSIVE ScoreAfter(_, _, _, _, _)
ScoreAfter(name, base, pairs, bonuses, k) ==
    IF k = 0 THEN base
    ELSE LET sofar == ScoreAfter(name, base, pairs, bonuses, k - 1)
         IN  IF IsNone(bonuses[k]) \/ name \notin Range(pairs[k]) THEN sofar
             ELSE FAdd(sofar, bonuses[k][1])

\* The names with their final scores, in the order of names.
RECURSIVE Scored(_, _, _, _)
Scored(names, stats, pairs, bonuses) ==
    IF names = <<>> THEN <<>>
    ELSE <<(<<Head(names),
              ScoreAfter(Head(names), BaseScore(stats[Head(names)]), pairs, bonuses, Len(pairs))>>)>>
         \o Scored(Tail(names), stats, pairs, bonuses)

\* sorted(..., reverse=True) is stable: of two names with equal scores the
\* one that stands first in the input stays first.
RECURSIVE InsertDescending(_, _)
InsertDescending(item, ranked) ==
    IF ranked = <<>> THEN <<item>>
    ELSE IF QLeq(Head(ranked)[2], item[2]) THEN <<item>> \o ranked
    ELSE <<Head(ranked)>> \o InsertDescending(item, Tail(ranked))

RECURSIVE SortedDescending(_)
SortedDescending(items) ==
    IF items = <<>> THEN <<>>
    ELSE InsertDescending(Head(items), SortedDescending(Tail(items)))

\* reliability_ranking(stats, agreements); names is list(stats.keys()).
reliability_ranking(names, stats, agreements) ==
    LET pairs == PairsFrom(SelectSeq(SortedNames, LAMBDA x : x \in DOMAIN stats), 1, 2)
        bonuses == Bonuses(pairs, agreements, 1)
        ranked == SortedDescending(Scored(names, stats, pairs, bonuses))
    IN  [i \in 1..Len(ranked) |-> ranked[i][1]]

\* run_project: the analysis part of the summary.
Summary(ms) ==
    Some([stats_by_ammeter |-> stats_by_ammeter(ms),
          pairwise_agreement |-> pairwise_agreement(ms),
          reliability_ranking |-> reliability_ranking(FirstSeen(ms), stats_by_ammeter(ms),
                                                      pairwise_agreement(ms))])

-----------------------------------------------------------------------------
(* unified_api.py: the socket calls of one measure() *)

SocketCallOrder == <<"socket", "settimeout", "connect", "sendall", "recv">>

\* The socket call that raises the exception exc; "" raises nowhere.
RaisedBy(exc) ==
    IF exc = "" THEN {"none"}
    ELSE IF exc = "ConnectionRefusedError" THEN {"connect"}
    ELSE IF exc = "timeout" THEN {"connect", "recv"}
    ELSE {"sendall", "recv"}

SocketCallsWithoutExit(at) ==
    IF at = "none" THEN SocketCallOrder \o <<"close">>
    ELSE SubSeq(SocketCallOrder, 1, CHOOSE k \in 1..Len(SocketCallOrder) : SocketCallOrder[k] = at)

\* The calls measure() makes on its socket when the call `at` raises: the
\* calls up to that one, then the close of "with socket(...) as s".
SocketCalls(at) ==
    (IF at = "none" THEN SocketCallOrder
     ELSE SubSeq(SocketCallOrder, 1, CHOOSE k \in 1..Len(SocketCallOrder) : SocketCallOrder[k] = at))
    \o <<"close">>

-----------------------------------------------------------------------------
(* The program as a state machine *)

sampler_vars == <<t_start, n, idx, tick_at, out, log>>

unit_vars == <<m_in, m_out>>

\* run_framework.main: cfg = parse_config(raw); a KeyError ends the program.
ParseConfigStep ==
    /\ pc = "load"
    /\ IF ParseRaises(raw)
       THEN pc' = "parse_error" /\ UNCHANGED cfg
       ELSE pc' = "parsed" /\ cfg' = ParseConfig(raw)
    /\ UNCHANGED <<raw, env, now, files, agent, sent, summary, wire>>
    /\ UNCHANGED sampler_vars
    /\ UNCHANGED unit_vars

\* run_project up to Sampler(...): the clients, the metrics client and the
\* fault injector are built without any I/O, then Sampler.__init__ checks the
\* frequency.
Construct ==
    /\ pc = "parsed"
    /\ pc' = IF SamplerRejects(cfg.sampling) THEN "config_error" ELSE "constructed"
    /\ UNCHANGED <<raw, env, cfg, now, files, agent, sent, summary, wire>>
    /\ UNCHANGED sampler_vars
    /\ UNCHANGED unit_vars

\* Sampler.run, up to the loop.
RunEnter ==
    /\ pc = "constructed"
    /\ out' = <<>>
    /\ log' = <<>>
    /\ t_start' = now
    /\ n' = 0
    /\ sent' = <<>>
    /\ pc' = "top"
    /\ UNCHANGED <<raw, env, cfg, now, files, idx, tick_at, agent, summary, wire>>
    /\ UNCHANGED unit_vars

\* Sampler.run: a stop condition holds at the top of the loop; return out.
RunReturn ==
    /\ pc = "top"
    /\ StopNow
    /\ pc' = "returned"
    /\ UNCHANGED <<raw, env, cfg, now, files, agent, sent, summary, wire>>
    /\ UNCHANGED sampler_vars
    /\ UNCHANGED unit_vars

\* Sampler.run: no stop condition holds; sleep until the tick's target.
\* time.sleep may return late by a delay of the host (env.oversleep).
TickBegin ==
    /\ pc = "top"
    /\ ~StopNow
    /\ LET sleep_s == SleepFor(TargetOf(n), now)
       IN  \E late \in env.oversleep :
               /\ now' = IF sleep_s > 0 /\ ~FreeRunning
                         THEN now + sleep_s + late ELSE now
               /\ tick_at' = now'
    /\ idx' = 1
    /\ pc' = "poll"
    /\ UNCHANGED <<raw, env, cfg, files, t_start, n, out, log, agent, sent, summary, wire>>
    /\ UNCHANGED unit_vars

\* Sampler.run: one pass of the for loop: measure, apply the faults, append,
\* emit the metrics.
Poll ==
    /\ pc = "poll"
    /\ idx <= NumClients
    /\ \E p \in env.polls, r \in RollSet(cfg.fault_injection) :
           LET m0 == Measure(ClientAt(idx), p.exchange, now, p.latency)
               m1 == Apply(cfg.fault_injection, m0, r)
           IN  /\ IF FreeRunning THEN wire' = wire
                  ELSE \E at \in RaisedBy(p.exchange.exc) : wire' = SocketCalls(at)
               /\ IF Escapes(p.exchange) \/ ApplyRaises(cfg.fault_injection, r)
                  THEN /\ pc' = "crashed"
                       /\ now' = now + p.latency
                       /\ UNCHANGED <<out, log, idx, sent>>
                  ELSE /\ IF FreeRunning
                          THEN UNCHANGED <<out, log, now, sent>>
                          ELSE /\ out' = Append(out, m1)
                               /\ log' = Append(log, [tick |-> n,
                                                      exchange |-> p.exchange,
                                                      measured |-> m0,
                                                      roll |-> r])
                               /\ now' = now + p.latency
                                           + ApplySlept(cfg.fault_injection, m0, r)
                               /\ sent' = IF cfg.datadog.enabled
                                          THEN sent \o Delivered(agent, MetricsFor(m1))
                                          ELSE sent
                       /\ IF cfg.datadog.enabled /\ SendEscapes(agent)
                          THEN pc' = "crashed" /\ idx' = idx
                          ELSE pc' = pc /\ idx' = idx + 1
    /\ UNCHANGED <<raw, env, cfg, files, t_start, n, tick_at, agent, summary>>
    /\ UNCHANGED unit_vars

\* Sampler.run: the for loop is over; n += 1.
TickEnd ==
    /\ pc = "poll"
    /\ idx > NumClients
    /\ n' = IF FreeRunning THEN n ELSE n + 1
    /\ pc' = "top"
    /\ UNCHANGED <<raw, env, cfg, now, files, t_start, idx, tick_at, out, log, agent, sent, summary, wire>>
    /\ UNCHANGED unit_vars

\* The files render_plots writes: a plot only when some Measurement is ok
\* with a value.
PlotFiles(ms, plot_types) ==
    IF \E i \in 1..Len(ms) : ms[i].ok /\ ~IsNone(ms[i].value_a)
    THEN {"plots/" \o t \o ".png" : t \in plot_types \cap {"time_series", "histogram", "box_plot"}}
    ELSE {}

MeasurementsFile(save_format) ==
    IF save_format = "csv" THEN "measurements.csv" ELSE "measurements.json"

\* run_project after sampler.run(): analysis, then the result files.
WriteResults ==
    /\ pc = "returned"
    /\ files' = {"config.json", MeasurementsFile(cfg.save_format), "summary.json",
                 "metadata.json"}
                \cup (IF cfg.visualization.enabled
                      THEN PlotFiles(out, cfg.visualization.plot_types) ELSE {})
    /\ summary' = Summary(out)
    /\ pc' = "done"
    /\ UNCHANGED <<raw, env, cfg, now, agent, sent, wire>>
    /\ UNCHANGED sampler_vars
    /\ UNCHANGED unit_vars

Next ==
    \/ ParseConfigStep
    \/ Construct
    \/ RunEnter
    \/ RunReturn
    \/ TickBegin
    \/ Poll
    \/ TickEnd
    \/ WriteResults

-----------------------------------------------------------------------------
(* Initial states *)

DurStep == MsPerSecond \div 2

OptionalCounts == {None} \cup {Some(c) : c \in 0..MaxCount}

OptionalDurations == {None} \cup {Some(d * DurStep) : d \in 0..MaxDurSteps}

Frequencies == {-1, 0, 1, 2}

\* The exchanges of the model: the transport faults, an empty read, the
\* device's error token, readings, and texts float() rejects.
TransportFaults == {"ConnectionRefusedError", "timeout", "ConnectionResetError"}

Readings == {<<"3">>, <<" ", "1", "2", "\n">>}

ErrorTokens ==
    {<<"ERROR:", " ", "Unsupported", " ", "command">>,
     <<"ERROR:", " ", "Unsupported", " ", "command", "\n">>,
     <<" ", "ERROR:", " ", "Unsupported", " ", "command">>}

Garbage == {<<"a", "b">>, <<" ">>}

AllExchanges ==
    {Exchange(e, <<>>) : e \in TransportFaults}
    \cup {Exchange("", d) : d \in {<<>>} \cup Readings \cup ErrorTokens \cup Garbage}

\* What a poll may meet: an exchange and the time it takes.
PollOf(exchange, latency) == [exchange |-> exchange, latency |-> latency]

Env(polls, oversleep) == [polls |-> polls, oversleep |-> oversleep]

RawConfig(ammeters, count, duration, hz, fault, save_format, viz) ==
    [ammeters |-> ammeters, measurements_count |-> count,
     total_duration_seconds |-> duration, sampling_frequency_hz |-> hz,
     fault_injection |-> fault, save_format |-> save_format, visualization |-> viz]

Visualization(enabled, plot_types) == [enabled |-> enabled, plot_types |-> plot_types]

InitOver(raws, envs) ==
    /\ raw \in raws
    /\ env \in envs
    /\ cfg = None
    /\ pc = "load"
    /\ now = ClockOrigin
    /\ t_start = 0
    /\ n = 0
    /\ idx = 0
    /\ tick_at = 0
    /\ out = <<>>
    /\ log = <<>>
    /\ files = {}
    /\ agent = "up"
    /\ sent = <<>>
    /\ summary = None
    /\ wire = <<>>
    /\ m_in = None
    /\ m_out = None

\* The runs of the main specification: every set of device entries, every
\* stop condition and frequency, no fault injection; in each run a poll
\* meets one of three exchanges, a reading that takes no time among them.
MainRaws ==
    {RawConfig(a, c, d, hz, DefaultFaultCfg, "json", Visualization(TRUE, {"time_series"})) :
        a \in [Range(Names) -> EntryStates], c \in OptionalCounts,
        d \in OptionalDurations, hz \in Frequencies}

MainEnvs ==
    {Env({PollOf(Exchange("", <<"3">>), 0),
          PollOf(Exchange("timeout", <<>>), MaxLatency)}, {0}),
     Env({PollOf(Exchange("ConnectionRefusedError", <<>>), 0),
          PollOf(Exchange("", <<>>), MaxLatency)}, {0}),
     Env({PollOf(Exchange("", <<" ", "1", "2", "\n">>), MaxLatency),
          PollOf(Exchange("", <<"ERROR:", " ", "Unsupported", " ", "command">>), 0)}, {0}),
     Env({PollOf(Exchange("", <<"3">>), 0),
          PollOf(Exchange("", <<"a", "b">>), MaxLatency)}, {0})}

Init == InitOver(MainRaws, MainEnvs)

Spec == Init /\ [][Next]_vars

\* The runs of the scheduling specification: two or three devices that
\* answer at once or after MaxLatency, a count of MaxTicks, a duration, or
\* both, at one and two ticks per second, no fault injection.
ScheduleRaws ==
    LET every == {RawConfig(a, c, d, hz, DefaultFaultCfg, "json", Visualization(FALSE, {})) :
                     a \in {[x \in Range(Names) |-> "ok"],
                             [x \in Range(Names) |-> IF x = "circutor" THEN "absent" ELSE "ok"]},
                     c \in {None, Some(MaxTicks)}, d \in OptionalDurations, hz \in {1, 2}}
    IN  {r \in every : ~(IsNone(r.measurements_count) /\ IsNone(r.total_duration_seconds))}

ScheduleEnvs ==
    {Env({PollOf(Exchange("", <<"3">>), 0)}, {0}),
     Env({PollOf(Exchange("", <<"3">>), MaxLatency)}, {0}),
     Env({PollOf(Exchange("", <<"3">>), 0), PollOf(Exchange("", <<"3">>), MaxLatency)}, {0})}

ScheduleInit == InitOver(ScheduleRaws, ScheduleEnvs)

ScheduleSpec == ScheduleInit /\ [][Next]_vars

\* The steps of Sampler.run.
RunStep == RunEnter \/ RunReturn \/ TickBegin \/ Poll \/ TickEnd

\* The control flow is one thread: a run() that can take a step takes it.
FairSpec == Spec /\ WF_vars(RunStep)

-----------------------------------------------------------------------------
(* Runs with the metrics client, with and without the datadog section, the  *)
(* agent up or down: two devices for one or MaxCount ticks with the         *)
(* injector disabled, and one device for one tick with the injector rolling *)
(* every fault with probability 1/RollDen.                                  *)

\* raw with a datadog section.
WithDatadog(r, dd) ==
    [k \in DOMAIN r \cup {"datadog"} |-> IF k = "datadog" THEN dd ELSE r[k]]

TwoDevices == [x \in Range(Names) |-> IF x = "circutor" THEN "absent" ELSE "ok"]

OneDevice == [x \in Range(Names) |-> IF x = "greenlee" THEN "ok" ELSE "absent"]

RollingFaultCfg == FaultInjectionCfg(TRUE, 1, 1, 1, 1, 1, 1, DefaultOutlierScale)

MetricsRaws ==
    LET viz == Visualization(TRUE, {"time_series"})
        plain == {RawConfig(TwoDevices, Some(c), None, 1, DefaultFaultCfg, "json", viz) :
                     c \in {1, MaxCount}}
        faulty == {RawConfig(OneDevice, Some(1), None, 1, RollingFaultCfg, "json", viz)}
    IN  (plain \cup faulty)
        \cup {WithDatadog(r, DatadogCfg(e)) : r \in plain \cup faulty, e \in BOOLEAN}

MetricsInit ==
    /\ raw \in MetricsRaws
    /\ env \in MainEnvs
    /\ cfg = None
    /\ pc = "load"
    /\ now = ClockOrigin
    /\ t_start = 0
    /\ n = 0
    /\ idx = 0
    /\ tick_at = 0
    /\ out = <<>>
    /\ log = <<>>
    /\ files = {}
    /\ agent \in {"up", "down"}
    /\ sent = <<>>
    /\ summary = None
    /\ wire = <<>>
    /\ m_in = None
    /\ m_out = None

MetricsSpec == MetricsInit /\ [][Next]_vars

-----------------------------------------------------------------------------
(* The unit harness: one measure() followed by one apply(), as in the body  *)
(* of the sampler's for loop, over every exchange and every fault           *)
(* configuration of the model.                                              *)

MeasureStep ==
    /\ pc = "unit"
    /\ \E p \in env.polls :
           LET m == Measure(Names[1], p.exchange, now, p.latency)
           IN  /\ now' = now + p.latency
               /\ \E at \in RaisedBy(p.exchange.exc) : wire' = SocketCalls(at)
               /\ log' = <<[tick |-> 0, exchange |-> p.exchange, measured |-> m]>>
               /\ IF Escapes(p.exchange)
                  THEN pc' = "measure_error" /\ m_in' = m_in
                  ELSE pc' = "measured" /\ m_in' = m
    /\ UNCHANGED <<raw, env, cfg, files, agent, sent, summary, m_out>>
    /\ UNCHANGED <<t_start, n, idx, tick_at, out>>

ApplyStep ==
    /\ pc = "measured"
    /\ \E r \in RollSet(cfg.fault_injection) :
           IF ApplyRaises(cfg.fault_injection, r)
           THEN /\ pc' = "apply_error"
                /\ UNCHANGED <<m_out, now>>
           ELSE /\ m_out' = Apply(cfg.fault_injection, m_in, r)
                /\ now' = now + ApplySlept(cfg.fault_injection, m_in, r)
                /\ pc' = "applied"
    /\ UNCHANGED <<raw, env, cfg, files, agent, sent, summary, wire, m_in>>
    /\ UNCHANGED sampler_vars

UnitNext == MeasureStep \/ ApplyStep

Probabilities == {0, 1, RollDen}

DelayBounds == {<<0, 0>>, <<1, MaxDelayMs>>, <<MaxDelayMs, 1>>, <<-1, 0>>}

FaultCfgs ==
    {FaultInjectionCfg(e, dr, de, db[1], db[2], co, ou, sc) :
        e \in BOOLEAN, dr \in Probabilities, de \in Probabilities,
        db \in DelayBounds, co \in Probabilities, ou \in Probabilities,
        sc \in {DefaultOutlierScale, 1}}

UnitRaws ==
    {RawConfig([x \in Range(Names) |-> "ok"], Some(1), None, 1, fc, "json",
               Visualization(FALSE, {})) : fc \in FaultCfgs}

UnitEnvs == {Env({PollOf(x, lat) : x \in AllExchanges, lat \in {0, MaxLatency}}, {0})}

UnitInit ==
    /\ raw \in UnitRaws
    /\ env \in UnitEnvs
    /\ cfg = ParseConfig(raw)
    /\ pc = "unit"
    /\ now = ClockOrigin
    /\ t_start = 0
    /\ n = 0
    /\ idx = 0
    /\ tick_at = 0
    /\ out = <<>>
    /\ log = <<>>
    /\ files = {}
    /\ agent = "up"
    /\ sent = <<>>
    /\ summary = None
    /\ wire = <<>>
    /\ m_in = None
    /\ m_out = None

UnitSpec == UnitInit /\ [][UnitNext]_vars

-----------------------------------------------------------------------------
(* The analysis harness: stats_by_ammeter, pairwise_agreement and           *)
(* reliability_ranking, as run_project calls them, over the series of two   *)
(* devices, of at most MaxSeries Measurements that are ok with a value of   *)
(* AnalysisValues or not ok, with or without a third device.                *)

AnalysisValues == {1, 2}

\* A Measurement of device name: ok with the value, or failed without one.
Sample(name, value) ==
    IF IsNone(value) THEN Measurement(name, 0, 0, None, 0, FALSE, Some(<<"no_data">>))
    ELSE Measurement(name, 0, 0, value, 0, TRUE, None)

SeriesOf(name, values) == [i \in 1..Len(values) |-> Sample(name, values[i])]

ValueSeries ==
    UNION {[1..k -> {None} \cup {Some(v) : v \in AnalysisValues}] : k \in 0..MaxSeries}

\* The series of the second device: one Measurement fewer at most.
ShorterSeries == {s \in ValueSeries : Len(s) < MaxSeries}

\* The series of a third device: none, or one ok Measurement.
ThirdSeries == {<<>>, <<Some(1)>>}

Analyse ==
    /\ pc = "analysis"
    /\ summary' = Summary(out)
    /\ pc' = "analysed"
    /\ UNCHANGED <<raw, env, cfg, now, files, agent, sent, wire>>
    /\ UNCHANGED sampler_vars
    /\ UNCHANGED unit_vars

AnalysisInit ==
    /\ raw = None
    /\ env = None
    /\ cfg = None
    /\ pc = "analysis"
    /\ now = ClockOrigin
    /\ t_start = 0
    /\ n = 0
    /\ idx = 0
    /\ tick_at = 0
    /\ out \in {SeriesOf("greenlee", a) \o SeriesOf("entes", b) \o SeriesOf("circutor", c) :
                   a \in ValueSeries, b \in ShorterSeries, c \in ThirdSeries}
    /\ log = <<>>
    /\ files = {}
    /\ agent = "up"
    /\ sent = <<>>
    /\ summary = None
    /\ wire = <<>>
    /\ m_in = None
    /\ m_out = None

AnalysisSpec == AnalysisInit /\ [][Analyse]_vars

-----------------------------------------------------------------------------
(* Properties *)

Returned == pc \in {"returned", "done"}

Parsed == pc \notin {"load", "parse_error", "unit", "analysis", "analysed", "apply_error",
                     "measure_error"}

\* The Measurements of out that device name produced.
PerDevice(name) == Cardinality({i \in 1..Len(out) : out[i].ammeter = name})

CountOf(sampling) == sampling.measurements_count[1]

DurationOf(sampling) == sampling.total_duration_seconds[1]

\* C1 as stated: with measurements_count = N and k devices, run() returns
\* exactly N * k Measurements, N per device, whatever total_duration_seconds
\* is and however long the polls take.
C1_ExactCountAnyDuration ==
    (Returned /\ ~IsNone(cfg.sampling.measurements_count)) =>
        /\ Len(out) = CountOf(cfg.sampling) * NumClients
        /\ \A j \in 1..NumClients : PerDevice(cfg.ammeters[j]) = CountOf(cfg.sampling)

\* C1 amended: with measurements_count = N, k devices and
\* total_duration_seconds unset, run() returns exactly N * k Measurements, N
\* per device, however long the polls take; with total_duration_seconds set
\* as well it returns at most N per device.
C1_ExactCountWithoutDuration ==
    (Returned /\ ~IsNone(cfg.sampling.measurements_count)) =>
        /\ IsNone(cfg.sampling.total_duration_seconds) =>
              /\ Len(out) = CountOf(cfg.sampling) * NumClients
              /\ \A j \in 1..NumClients :
                     PerDevice(cfg.ammeters[j]) = CountOf(cfg.sampling)
        /\ \A j \in 1..NumClients : PerDevice(cfg.ammeters[j]) <= CountOf(cfg.sampling)

C1_Witness ==
    /\ Returned
    /\ cfg.sampling.measurements_count = Some(2)
    /\ IsNone(cfg.sampling.total_duration_seconds)
    /\ NumClients = 3
    /\ Len(out) = 6
    /\ \E i \in 1..Len(out) : out[i].latency_s > period_s(cfg.sampling) \div 2

\* No system delay: no poll of the run took any time.
NoSystemDelay == \A i \in 1..Len(out) : out[i].latency_s = 0

\* C2 as stated: with only total_duration_seconds = D and period p, and no
\* system delay, run() executes floor(D/p) or floor(D/p)+1 ticks.
C2_TicksWithinOneOfQuotient ==
    (/\ Returned
     /\ IsNone(cfg.sampling.measurements_count)
     /\ ~IsNone(cfg.sampling.total_duration_seconds)
     /\ NoSystemDelay) =>
        LET q == DurationOf(cfg.sampling) \div period_s(cfg.sampling)
        IN  n \in {q, q + 1}

\* C3: at every point of run() the Measurement at 0-based position i is of
\* device clients[i mod k] and of tick floor(i / k), and the tick indices
\* never decrease along the sequence and increase from one group of k to
\* the next.
C3_GroupedByTickInDeviceOrder ==
    (pc \in {"top", "poll", "returned", "done"}) =>
        /\ Len(log) = Len(out)
        /\ \A i \in 1..Len(out) :
               /\ out[i].ammeter = cfg.ammeters[((i - 1) % NumClients) + 1]
               /\ log[i].tick = (i - 1) \div NumClients
        /\ \A i \in 1..Len(out), j \in 1..Len(out) :
               /\ i < j => log[i].tick <= log[j].tick
               /\ i + NumClients <= j => log[i].tick < log[j].tick

C3_Witness ==
    /\ pc = "poll"
    /\ NumClients = 3
    /\ Len(out) = 5
    /\ n = 1

WellFormed(m) ==
    /\ m.ok => /\ ~IsNone(m.value_a)
               /\ IsNone(m.error) \/ m.error = Some(<<"fault_outlier">>)
    /\ ~m.ok => IsNone(m.value_a) /\ ~IsNone(m.error)

\* C4: a Measurement measure() returns is ok with a value and no error, or
\* not ok with no value and an error; so is the Measurement apply() makes
\* of it, except that an ok one may carry the error "fault_outlier".
C4_MeasurementWellFormed ==
    /\ pc \in {"measured", "applied"} =>
           /\ WellFormed(m_in)
           /\ m_in.ok => IsNone(m_in.error)
    /\ pc = "applied" => WellFormed(m_out)

C4_Witness ==
    /\ pc = "applied"
    /\ m_out.ok
    /\ m_out.error = Some(<<"fault_outlier">>)
    /\ m_out.value_a = Some(3 * DefaultOutlierScale)

\* A device-level failure: the exchange raised, returned no bytes, returned
\* the error token, or returned a text that is no number.
DeviceFailure(x) ==
    \/ x.exc # ""
    \/ x.data = <<>>
    \/ StartsWith(Strip(x.data), ErrorPrefix)
    \/ IsNone(ParseFloat(Strip(x.data)))

\* Polls the model has recorded: none are recorded while FreeRunning holds.
PollsDone ==
    n * NumClients + (IF pc = "poll" /\ ~FreeRunning THEN idx - 1 ELSE 0)

\* C5: no exchange makes the run crash; every poll made so far, failed or
\* not, has appended exactly one Measurement, not ok when the device
\* failed; run() returns only on its stop condition; and a finished
\* run_project has written the measurements and the summary.
C5_FailuresNeverAbort ==
    /\ pc # "crashed"
    /\ (pc \in {"top", "poll", "returned", "done"}) =>
           /\ Len(out) = PollsDone
           /\ Len(log) = PollsDone
           /\ \A i \in 1..Len(out) : DeviceFailure(log[i].exchange) => ~out[i].ok
    /\ Returned => StopNow
    /\ pc = "done" => {"measurements.json", "summary.json"} \subseteq files

C5_Witness ==
    /\ pc = "done"
    /\ Len(out) = 6
    /\ \A i \in 1..Len(out) : ~out[i].ok
    /\ \E i \in 1..Len(out) : out[i].error = Some(<<"no_data">>)
    /\ \E i \in 1..Len(out) : out[i].error = Some(<<"ConnectionRefusedError">>)
    /\ {"measurements.json", "summary.json"} \subseteq files

\* C6 as stated: whatever SamplingCfg the Sampler constructor accepted, a
\* run() that has reached the top of its loop eventually returns.
C6_RunEventuallyReturns == (pc = "top") ~> (pc = "returned")

DropOnly(fc) ==
    /\ fc.drop_prob = RollDen
    /\ fc.delay_prob = 0
    /\ fc.corrupt_prob = 0
    /\ fc.outlier_prob = 0

IsFaultDrop(m) == ~m.ok /\ IsNone(m.value_a) /\ m.error = Some(<<"fault_drop">>)

\* C7 as stated: an injector configured with drop_prob = 1.0 and every
\* other probability 0 returns ok=false, no value, error "fault_drop" for
\* every input.
C7_DropOnlyAlwaysDrops ==
    (pc = "applied" /\ DropOnly(cfg.fault_injection)) => IsFaultDrop(m_out)

\* C7 amended: an enabled injector configured with drop_prob = 1.0 and
\* every other probability 0 returns ok=false, no value, error "fault_drop"
\* for every input.
C7_EnabledDropOnlyAlwaysDrops ==
    (pc = "applied" /\ cfg.fault_injection.enabled /\ DropOnly(cfg.fault_injection)) =>
        IsFaultDrop(m_out)

C7_Witness ==
    /\ pc = "applied"
    /\ cfg.fault_injection.enabled
    /\ DropOnly(cfg.fault_injection)
    /\ m_in.ok
    /\ IsFaultDrop(m_out)

AllProbabilitiesZero(fc) ==
    /\ fc.drop_prob = 0
    /\ fc.delay_prob = 0
    /\ fc.corrupt_prob = 0
    /\ fc.outlier_prob = 0

\* C8: apply(m) is m, field for field, when the injector is disabled,
\* whatever its probabilities, and when its four probabilities are 0.
C8_IdentityWhenDisabledOrZero ==
    (/\ pc = "applied"
     /\ ~cfg.fault_injection.enabled \/ AllProbabilitiesZero(cfg.fault_injection)) =>
        /\ m_out.ammeter = m_in.ammeter
        /\ m_out.timestamp_monotonic = m_in.timestamp_monotonic
        /\ m_out.wall_time_epoch = m_in.wall_time_epoch
        /\ m_out.value_a = m_in.value_a
        /\ m_out.latency_s = m_in.latency_s
        /\ m_out.ok = m_in.ok
        /\ m_out.error = m_in.error

C8_Witness ==
    /\ pc = "applied"
    /\ ~cfg.fault_injection.enabled
    /\ cfg.fault_injection.drop_prob = RollDen
    /\ cfg.fault_injection.corrupt_prob = RollDen
    /\ m_in.ok
    /\ m_out = m_in

\* C9: with sampling_frequency_hz <= 0 the Sampler constructor raises:
\* run_project stops there, no device has been polled and no file is
\* written.
C9_NonPositiveFrequencyRejected ==
    IF Parsed /\ pc # "measured" /\ pc # "applied"
    THEN cfg.sampling.sampling_frequency_hz <= 0 =>
             /\ pc \in {"parsed", "config_error"}
             /\ out = <<>>
             /\ log = <<>>
             /\ files = {}
    ELSE TRUE

C9_Witness ==
    /\ pc = "config_error"
    /\ cfg.sampling.sampling_frequency_hz = 0
    /\ NumClients = 3

\* C10 as stated: a configuration that lacks a required device entry is
\* fatal: no device is polled and no file is written.
C10_MissingDeviceIsFatal ==
    (\E i \in 1..Len(Names) : raw.ammeters[Names[i]] = "absent") =>
        /\ log = <<>>
        /\ files = {}

\* The Measurement the i-th recorded poll yields, from the device's
\* response and the fault rolls alone.
Replayed(i) ==
    Apply(cfg.fault_injection,
          Measure(cfg.ammeters[((i - 1) % NumClients) + 1], log[i].exchange,
                  log[i].measured.timestamp_monotonic, log[i].measured.latency_s),
          log[i].roll)

\* C11: whether the metrics client is absent, sends, or has every send
\* raise, run() never crashes, appends for every poll exactly the
\* Measurement the device's response and the fault rolls determine, and
\* returns only on its stop condition, after the configured ticks.
C11_MetricsNeverAffectRun ==
    /\ pc # "crashed"
    /\ (pc \in {"top", "poll", "returned", "done"}) =>
           /\ Len(out) = PollsDone
           /\ Len(log) = PollsDone
           /\ \A i \in 1..Len(out) : out[i] = Replayed(i)
    /\ Returned =>
           /\ StopNow
           /\ ~IsNone(cfg.sampling.measurements_count) /\ IsNone(cfg.sampling.total_duration_seconds)
                  => n = CountOf(cfg.sampling)

C11_Witness ==
    /\ pc = "returned"
    /\ cfg.datadog.enabled
    /\ agent = "down"
    /\ cfg.fault_injection.enabled
    /\ Len(out) = 1
    /\ sent = <<>>
    /\ out[1].error = Some(<<"fault_outlier">>)
    /\ out[1].ok

\* The Measurements of out that device name produced, and its values that
\* are ok.
MeasurementsOf(name) == SelectSeq(out, LAMBDA m : m.ammeter = name)

OkSeries(name) ==
    LET sel == SelectSeq(MeasurementsOf(name), LAMBDA m : m.ok /\ ~IsNone(m.value_a))
    IN  [i \in 1..Len(sel) |-> FromInt(sel[i].value_a[1])]

AllAbsent(st) ==
    /\ IsNone(st.mean)
    /\ IsNone(st.median)
    /\ IsNone(st.std_dev)
    /\ IsNone(st.min)
    /\ IsNone(st.max)

\* C12: the statistics have one entry per device that has Measurements;
\* count is the number of all its Measurements, ok_count the number of its
\* ok ones with a value, ok_count <= count; mean, median, std_dev, min and
\* max are those of the ok values alone; std_dev is 0.0 with exactly one ok
\* value; the five are absent with no ok value.
C12_StatsGroupedByDevice ==
    pc = "analysed" =>
        LET stats == summary[1].stats_by_ammeter
        IN  /\ DOMAIN stats = {out[i].ammeter : i \in 1..Len(out)}
            /\ \A name \in DOMAIN stats :
                   LET st == stats[name]
                       vals == OkSeries(name)
                   IN  /\ st.count = Len(MeasurementsOf(name))
                       /\ st.ok_count = Len(vals)
                       /\ st.ok_count <= st.count
                       /\ Len(vals) = 0 => AllAbsent(st)
                       /\ Len(vals) >= 1 =>
                              /\ st.mean = Some(fmean(vals))
                              /\ st.median = Some(median(vals))
                              /\ st.min # None /\ st.min[1] \in Range(vals)
                              /\ st.max # None /\ st.max[1] \in Range(vals)
                              /\ \A v \in Range(vals) : QLeq(st.min[1], v) /\ QLeq(v, st.max[1])
                              /\ st.std_dev # None /\ QLeq(Zero, st.std_dev[1])
                       /\ Len(vals) = 1 =>
                              /\ st.std_dev = Some(Zero)
                              /\ st.mean = Some(vals[1])
                              /\ st.median = Some(vals[1])
                       /\ Len(vals) >= 2 => st.std_dev = Some(pstdev(vals))

C12_Witness ==
    /\ pc = "analysed"
    /\ LET stats == summary[1].stats_by_ammeter
       IN  /\ DOMAIN stats = {"greenlee", "entes"}
           /\ stats["greenlee"].count = 3
           /\ stats["greenlee"].ok_count = 1
           /\ stats["greenlee"].std_dev = Some(Zero)
           /\ stats["entes"].count = 2
           /\ stats["entes"].ok_count = 0
           /\ AllAbsent(stats["entes"])

\* The values of a series are not all the same.
NonzeroVariance(xs) == \E i \in 1..Len(xs), j \in 1..Len(xs) : xs[i] # xs[j]

\* C13 as stated: for two devices whose ok-value series are identical (and
\* have a point to pair) the agreement has mae = 0.0 and rmse = 0.0, and
\* correlation 1.0 when the series has at least 2 points and nonzero
\* variance; the correlation is undefined when either paired series has
\* fewer than 2 points or zero variance.
C13_IdenticalSeriesAgree ==
    pc = "analysed" =>
        LET agreements == summary[1].pairwise_agreement
        IN  \A pr \in DOMAIN agreements :
                LET ag == agreements[pr]
                    xs == OkSeries(pr[1])
                    ys == OkSeries(pr[2])
                    k == Min(Len(xs), Len(ys))
                    px == SubSeq(xs, 1, k)
                    py == SubSeq(ys, 1, k)
                IN  /\ (xs = ys /\ Len(xs) >= 1) =>
                           /\ ag.mae = Some(Zero)
                           /\ ag.rmse = Some(Zero)
                           /\ (Len(xs) >= 2 /\ NonzeroVariance(xs)) =>
                                  ag.correlation = Some(One)
                    /\ (k < 2 \/ ~NonzeroVariance(px) \/ ~NonzeroVariance(py)) =>
                           IsNone(ag.correlation)

\* C14 as stated: a finished run_project with visualization enabled has
\* written at least one plot file under plots/, time_series.png among them
\* when the time_series plot type is configured, whatever the sampled
\* Measurements are.
C14_PlotsWheneverVisualized ==
    (pc = "done" /\ cfg.visualization.enabled) =>
        /\ \E t \in {"time_series", "histogram", "box_plot"} :
               ("plots/" \o t \o ".png") \in files
        /\ "time_series" \in cfg.visualization.plot_types =>
               "plots/time_series.png" \in files

\* C15 as stated: the Measurements polled in one tick carry the same
\* timestamp_monotonic, the clock reading at which the tick began, and
\* fault injection preserves it.
C15_TimestampIsTickTime ==
    (pc \in {"top", "poll", "returned", "done"}) =>
        /\ \A i \in 1..Len(out), j \in 1..Len(out) :
               log[i].tick = log[j].tick =>
                   out[i].timestamp_monotonic = out[j].timestamp_monotonic
        /\ \A i \in 1..Len(out) :
               /\ out[i].timestamp_monotonic = log[i].measured.timestamp_monotonic
               /\ (pc = "poll" /\ log[i].tick = n) => out[i].timestamp_monotonic = tick_at

\* The rolls under which apply returns.
ReturningRolls(fc) == {r \in RollSet(fc) : ~ApplyRaises(fc, r)}

HasError(m, text) == m.error = Some(<<text>>)

\* The clock reading at which the measure() of the unit harness returned.
MeasuredAt == ClockOrigin + m_in.latency_s

\* C16: an enabled apply checks drop, delay, corrupt, outlier in this order
\* under every combination of rolls: a successful drop roll gives
\* "fault_drop" with no delay slept or added, whatever the other rolls;
\* otherwise a successful corrupt roll gives "fault_corrupt", also when the
\* outlier roll succeeds; a result is "fault_outlier" only when neither
\* drop nor corrupt fired, and then whenever the outlier roll succeeds on an
\* ok Measurement with a value.
C16_FixedOrderOfChecks ==
    /\ (pc = "measured" /\ cfg.fault_injection.enabled) =>
           \A r \in ReturningRolls(cfg.fault_injection) :
               LET fc == cfg.fault_injection
                   o == Apply(fc, m_in, r)
                   drop == r.drop < fc.drop_prob
                   delay == r.delay < fc.delay_prob
                   corrupt == r.corrupt < fc.corrupt_prob
                   outlier == r.outlier < fc.outlier_prob
               IN  /\ drop => /\ IsFaultDrop(o)
                               /\ o.latency_s = m_in.latency_s
                               /\ ApplySlept(fc, m_in, r) = 0
                   /\ (~drop /\ corrupt) =>
                          /\ HasError(o, "fault_corrupt") /\ ~o.ok /\ IsNone(o.value_a)
                          /\ o.latency_s = m_in.latency_s + (IF delay THEN r.delay_ms ELSE 0)
                   /\ HasError(o, "fault_outlier") => (~drop /\ ~corrupt /\ outlier)
                   /\ (~drop /\ ~corrupt /\ outlier /\ m_in.ok /\ ~IsNone(m_in.value_a)) =>
                          HasError(o, "fault_outlier")
    /\ (pc = "applied" /\ HasError(m_out, "fault_drop")) =>
           /\ m_out.latency_s = m_in.latency_s
           /\ now = MeasuredAt

C16_Witness ==
    /\ pc = "applied"
    /\ cfg.fault_injection.enabled
    /\ cfg.fault_injection.drop_prob = 1
    /\ cfg.fault_injection.outlier_prob = RollDen
    /\ cfg.fault_injection.corrupt_prob = 1
    /\ m_in.ok
    /\ HasError(m_out, "fault_corrupt")
    /\ m_out.latency_s > m_in.latency_s

\* C17: a result is "fault_outlier" only for an input that is ok with a
\* value, and is then ok with the input value times outlier_scale; apply
\* never returns ok for an input that is not ok, nor a value for an input
\* that has none.
C17_OutlierOnlyAmplifiesOk ==
    /\ pc = "measured" =>
           \A r \in ReturningRolls(cfg.fault_injection) :
               LET o == Apply(cfg.fault_injection, m_in, r)
               IN  /\ HasError(o, "fault_outlier") =>
                          /\ m_in.ok /\ ~IsNone(m_in.value_a)
                          /\ o.ok
                          /\ o.value_a = Some(m_in.value_a[1] * cfg.fault_injection.outlier_scale)
                   /\ ~m_in.ok => ~o.ok
                   /\ IsNone(m_in.value_a) => IsNone(o.value_a)
    /\ pc = "applied" =>
           /\ ~m_in.ok => ~m_out.ok
           /\ IsNone(m_in.value_a) => IsNone(m_out.value_a)
           /\ (m_out.ok /\ m_out.value_a # m_in.value_a) => HasError(m_out, "fault_outlier")

C17_Witness ==
    /\ pc = "applied"
    /\ m_in.ok
    /\ m_in.value_a = Some(12)
    /\ m_out.ok
    /\ HasError(m_out, "fault_outlier")
    /\ m_out.value_a = Some(12 * DefaultOutlierScale)
    /\ m_out.latency_s > m_in.latency_s

\* What apply leaves alone on every path, and what its delay step does:
\* the delay is slept and added to latency, kept by a later corrupt or
\* outlier result, and only a drop, corrupt or outlier result changes ok,
\* value or error.
FrameOfApply ==
    /\ m_out.ammeter = m_in.ammeter
    /\ m_out.timestamp_monotonic = m_in.timestamp_monotonic
    /\ m_out.wall_time_epoch = m_in.wall_time_epoch
    /\ m_out.latency_s >= m_in.latency_s
    /\ now - MeasuredAt = m_out.latency_s - m_in.latency_s
    /\ (~HasError(m_out, "fault_drop") /\ ~HasError(m_out, "fault_corrupt")
          /\ ~HasError(m_out, "fault_outlier")) =>
           /\ m_out.ok = m_in.ok
           /\ m_out.value_a = m_in.value_a
           /\ m_out.error = m_in.error

AddedDelay == m_out.latency_s - m_in.latency_s

\* C18 as stated: the returned Measurement keeps ammeter,
\* timestamp_monotonic and wall_time_epoch; the delay step only adds to
\* latency a duration of delay_ms_min..delay_ms_max milliseconds.
C18_DelayWithinConfiguredRange ==
    pc = "applied" =>
        /\ FrameOfApply
        /\ AddedDelay # 0 =>
               AddedDelay \in cfg.fault_injection.delay_ms_min .. cfg.fault_injection.delay_ms_max

\* C18 amended: the same, with the duration drawn from
\* delay_ms_min..max(delay_ms_min, delay_ms_max).
C18_DelayWithinEffectiveRange ==
    pc = "applied" =>
        /\ FrameOfApply
        /\ AddedDelay # 0 =>
               AddedDelay \in cfg.fault_injection.delay_ms_min ..
                                  Max(cfg.fault_injection.delay_ms_min,
                                      cfg.fault_injection.delay_ms_max)

C18_Witness ==
    /\ pc = "applied"
    /\ cfg.fault_injection.delay_ms_min = MaxDelayMs
    /\ cfg.fault_injection.delay_ms_max = 1
    /\ HasError(m_out, "fault_corrupt")
    /\ m_in.latency_s = MaxLatency
    /\ AddedDelay = MaxDelayMs

\* The exchange the measure() of the unit harness met.
Met == log[1].exchange

Failed(m) == ~m.ok /\ IsNone(m.value_a) /\ ~IsNone(m.error)

\* What measure() makes of every exchange but a device error token.
OutcomeOfExchange ==
    /\ pc # "measure_error"
    /\ pc \in {"measured", "applied"} =>
           /\ m_in.ok <=> (~IsNone(m_in.value_a) /\ IsNone(m_in.error))
           /\ m_in.ok \/ Failed(m_in)
           /\ Met.exc # "" => (Failed(m_in) /\ m_in.error # Some(<<>>))
           /\ (Met.exc = "" /\ Met.data = <<>>) => (Failed(m_in) /\ HasError(m_in, "no_data"))
           /\ (Met.exc = "" /\ Met.data = <<"3">>) => (m_in.ok /\ m_in.value_a = Some(3))
           /\ (Met.exc = "" /\ Met.data = <<" ", "1", "2", "\n">>) =>
                  (m_in.ok /\ m_in.value_a = Some(12))
           /\ (Met.exc = "" /\ ~IsNone(ParseFloat(Strip(Met.data)))) =>
                  (m_in.ok /\ m_in.value_a = ParseFloat(Strip(Met.data)))
           /\ (Met.exc = "" /\ Met.data \in Garbage) =>
                  (Failed(m_in) /\ m_in.error # Some(<<>>))

\* C19 as stated: measure() maps every exchange to exactly one result and
\* never raises; a decoded response beginning with "ERROR:" gives a failed
\* Measurement whose error is the full response text.
C19_ErrorIsFullResponseText ==
    /\ OutcomeOfExchange
    /\ (pc \in {"measured", "applied"} /\ Met.exc = "" /\ StartsWith(Met.data, ErrorPrefix)) =>
           (Failed(m_in) /\ m_in.error = Some(Met.data))

\* C19 amended: the same, with the response trimmed of surrounding
\* whitespace before the prefix test, and the trimmed text as the error.
C19_ErrorIsTrimmedResponseText ==
    /\ OutcomeOfExchange
    /\ (pc \in {"measured", "applied"} /\ Met.exc = "" /\ StartsWith(Strip(Met.data), ErrorPrefix)) =>
           (Failed(m_in) /\ m_in.error = Some(Strip(Met.data)))

C19_Witness ==
    /\ pc = "measured"
    /\ Met.exc = ""
    /\ Met.data = <<"ERROR:", " ", "Unsupported", " ", "command", "\n">>
    /\ m_in.error = Some(<<"ERROR:", " ", "Unsupported", " ", "command">>)
    /\ ~m_in.ok

\* How often measure() made the socket call c.
TimesCalled(c) == Cardinality({i \in 1..Len(wire) : wire[i] = c})

\* The order the claim gives to the steps of one exchange.
StepOrder == <<"connect", "sendall", "recv", "close">>

StepRank(c) == CHOOSE k \in 1..Len(StepOrder) : StepOrder[k] = c

\* C20: one measure() call makes at most one exchange, in the order
\* connect, send once, read once, close: no step is repeated, the steps it
\* makes are in this order, a step is made only if the one before it was,
\* the socket it opened is closed on every path (after a transport
\* exception too) and close is its last call; an exchange without a
\* transport fault makes every step.
C20_OneExchangeThenClose ==
    pc \in {"measured", "applied"} =>
        /\ TimesCalled("socket") = 1
        /\ wire[1] = "socket"
        /\ \A c \in Range(StepOrder) : TimesCalled(c) <= 1
        /\ TimesCalled("close") = 1
        /\ wire[Len(wire)] = "close"
        /\ \A i, j \in 1..Len(wire) :
               (i < j /\ wire[i] \in Range(StepOrder) /\ wire[j] \in Range(StepOrder)) =>
                   StepRank(wire[i]) < StepRank(wire[j])
        /\ TimesCalled("recv") = 1 => TimesCalled("sendall") = 1
        /\ TimesCalled("sendall") = 1 => TimesCalled("connect") = 1
        /\ Met.exc = "" => \A c \in Range(StepOrder) : TimesCalled(c) = 1
        /\ Met.exc # "" => TimesCalled("recv") + TimesCalled("sendall") + TimesCalled("connect") >= 1

C20_Witness ==
    /\ pc = "measured"
    /\ Met.exc = "ConnectionResetError"
    /\ wire = <<"socket", "settimeout", "connect", "sendall", "close">>
    /\ ~m_in.ok

\* Ticks whose first poll has begun.
TicksBegun == n + (IF pc = "poll" THEN 1 ELSE 0)

InRun == pc \in {"top", "poll", "returned", "done"} /\ NumClients >= 1

\* When the first poll of tick k began: measure() stamps it.
BeginOf(k) ==
    IF k * NumClients + 1 <= Len(out) THEN out[k * NumClients + 1].timestamp_monotonic
    ELSE tick_at

\* When the last poll of the completed tick k ended.
EndOf(k) ==
    out[(k + 1) * NumClients].timestamp_monotonic + out[(k + 1) * NumClients].latency_s

AbsoluteTarget(k) == t_start + k * (MsPerSecond \div cfg.sampling.sampling_frequency_hz)

Lag(k) == BeginOf(k) - AbsoluteTarget(k)

\* Every completed tick's work took longer than the period.
SustainedOverrun ==
    \A k \in 0..(n - 1) :
        EndOf(k) - BeginOf(k) > MsPerSecond \div cfg.sampling.sampling_frequency_hz

\* C22: a tick whose predecessor's work ended after its target begins when
\* that work ended, without sleeping; the ticks executed are 0, 1, ... in
\* order, none skipped; and when every tick's work is longer than the
\* period the lag of a tick behind its target grows with the tick index.
C22_OverrunNeverSkipsTicks ==
    InRun =>
        /\ \A k \in 1..(TicksBegun - 1) :
               EndOf(k - 1) > AbsoluteTarget(k) => BeginOf(k) = EndOf(k - 1)
        /\ \A i \in 1..Len(log) : log[i].tick = (i - 1) \div NumClients
        /\ Len(out) = PollsDone
        /\ SustainedOverrun => \A k \in 1..(TicksBegun - 1) : Lag(k) > Lag(k - 1)

C22_Witness ==
    /\ pc = "returned"
    /\ n = MaxTicks
    /\ SustainedOverrun
    /\ Lag(1) > 0
    /\ Lag(2) > Lag(1)
    /\ Len(out) = MaxTicks * NumClients

\* The elapsed time the stop test at the top of tick k read.
ElapsedAtTopOf(k) == IF k = 0 THEN 0 ELSE EndOf(k - 1) - t_start

BothLimitsSet ==
    ~IsNone(cfg.sampling.measurements_count) /\ ~IsNone(cfg.sampling.total_duration_seconds)

\* C23: with measurements_count = N and total_duration_seconds = D, every
\* executed tick k passed the test at its top (k < N and elapsed < D), run()
\* returns only when n >= N or elapsed >= D at the top of a tick, hence at
\* the first test that triggers; a tick that began polls every configured
\* device in order, so out holds n whole ticks.
C23_StopOnlyAtTopOfTick ==
    (InRun /\ BothLimitsSet) =>
        /\ \A k \in 0..(TicksBegun - 1) :
               /\ k < CountOf(cfg.sampling)
               /\ ElapsedAtTopOf(k) < DurationOf(cfg.sampling)
        /\ Returned => \/ n >= CountOf(cfg.sampling)
                        \/ ElapsedAtTopOf(n) >= DurationOf(cfg.sampling)
        /\ (pc = "top" \/ Returned) => Len(out) = n * NumClients
        /\ \A i \in 1..Len(out) : out[i].ammeter = cfg.ammeters[((i - 1) % NumClients) + 1]
        /\ \A i \in 1..Len(log) : log[i].tick = (i - 1) \div NumClients

C23_Witness ==
    /\ pc = "returned"
    /\ BothLimitsSet
    /\ NumClients = 3
    /\ n = 1
    /\ n < CountOf(cfg.sampling)
    /\ out[2].timestamp_monotonic + out[2].latency_s - t_start >= DurationOf(cfg.sampling)
    /\ DurationOf(cfg.sampling) > 0
    /\ Len(out) = 3

\* The datagrams sent so far that carry one of the names.
SentNamed(names) == SelectSeq(sent, LAMBDA d : d.name \in names)

OkWithValue(m) == m.ok /\ ~IsNone(m.value_a)

\* C24: every stored Measurement is the result of apply on what measure()
\* returned, and with a metrics client whose sends succeed the datagrams
\* describe the stored Measurements in order: one latency timing each, one
\* success or failure counter each, chosen by the stored Measurement, and one
\* value gauge for each stored Measurement that is ok with a value, and
\* nothing else.
C24_MetricsDescribePostFault ==
    (pc \in {"top", "poll", "returned", "done"}) =>
        /\ \A i \in 1..Len(out) :
               out[i] = Apply(cfg.fault_injection, log[i].measured, log[i].roll)
        /\ (cfg.datadog.enabled /\ agent = "up") =>
               LET timings == SentNamed({"latency_ms"})
                   counters == SentNamed({"measure_ok", "measure_error"})
                   gauges == SentNamed({"current_a"})
                   valued == SelectSeq(out, OkWithValue)
               IN  /\ Len(timings) = Len(out)
                   /\ Len(counters) = Len(out)
                   /\ Len(gauges) = Len(valued)
                   /\ Len(sent) = Len(timings) + Len(counters) + Len(gauges)
                   /\ \A i \in 1..Len(out) :
                          /\ timings[i].value = out[i].latency_s
                          /\ timings[i].ammeter = out[i].ammeter
                          /\ counters[i].ammeter = out[i].ammeter
                          /\ counters[i].name = IF OkWithValue(out[i]) THEN "measure_ok"
                                                 ELSE "measure_error"
                   /\ \A k \in 1..Len(valued) :
                          /\ gauges[k].value = valued[k].value_a[1]
                          /\ gauges[k].ammeter = valued[k].ammeter

C24_Witness ==
    /\ pc = "returned"
    /\ cfg.datadog.enabled
    /\ agent = "up"
    /\ cfg.fault_injection.enabled
    /\ Len(out) = 1
    /\ log[1].measured.ok
    /\ ~out[1].ok
    /\ out[1].latency_s > log[1].measured.latency_s
    /\ Len(sent) = 2
    /\ sent[1].name = "measure_error"
    /\ sent[2].value = out[1].latency_s

\* a stands before b in sorted-name order.
NameBefore(a, b) ==
    <<a, b>> \in {<<"circutor", "entes">>, <<"circutor", "greenlee">>, <<"entes", "greenlee">>}

DevicesIn(ms) == {ms[i].ammeter : i \in 1..Len(ms)}

\* C25: the agreements have exactly one entry per unordered pair of
\* distinct devices of the sequence, keyed with the name that sorts first
\* in front; paired_count is the smaller of the two counts of ok values;
\* mae, rmse and correlation are those of the first paired_count ok values
\* of each device, in their order, and are undefined when paired_count is 0.
C25_OneAgreementPerPair ==
    pc = "analysed" =>
        LET agreements == summary[1].pairwise_agreement
        IN  /\ DOMAIN agreements =
                   {pr \in DevicesIn(out) \X DevicesIn(out) : NameBefore(pr[1], pr[2])}
            /\ \A pr \in DOMAIN agreements :
                   LET ag == agreements[pr]
                       xs == OkSeries(pr[1])
                       ys == OkSeries(pr[2])
                       k == IF Len(xs) <= Len(ys) THEN Len(xs) ELSE Len(ys)
                       diffs == [i \in 1..k |-> QAbs(FSub(xs[i], ys[i]))]
                       squares == [i \in 1..k |-> FMul(FSub(xs[i], ys[i]), FSub(xs[i], ys[i]))]
                   IN  /\ ag.paired_count = k
                       /\ k = 0 => (IsNone(ag.mae) /\ IsNone(ag.rmse) /\ IsNone(ag.correlation))
                       /\ k >= 1 =>
                              /\ ag.mae = Some(fmean(diffs))
                              /\ ag.rmse = Some(FSqrt(fmean(squares)))
                              /\ ag.correlation = pearson(SubSeq(xs, 1, k), SubSeq(ys, 1, k))

C25_Witness ==
    /\ pc = "analysed"
    /\ DevicesIn(out) = {"greenlee", "entes", "circutor"}
    /\ Cardinality(DOMAIN summary[1].pairwise_agreement) = 3
    /\ Len(OkSeries("greenlee")) = 3
    /\ OkSeries("greenlee")[3] # OkSeries("greenlee")[1]
    /\ Len(MeasurementsOf("entes")) = 2
    /\ summary[1].pairwise_agreement[<<"entes", "greenlee">>].paired_count = 1
    /\ summary[1].pairwise_agreement[<<"entes", "greenlee">>].mae = Some(Zero)
    /\ summary[1].pairwise_agreement[<<"circutor", "entes">>].paired_count = 1

\* The indices in out of the Measurements of device name that are ok with
\* a value.
OkIndices(name) ==
    SelectSeq([i \in 1..Len(out) |-> i],
              LAMBDA i : out[i].ammeter = name /\ OkWithValue(out[i]))

\* C26 as stated: the k-th values that pairwise_agreement pairs for two
\* devices were taken in the same tick.
C26_PairedValuesShareATick ==
    pc = "done" =>
        \A pr \in DOMAIN summary[1].pairwise_agreement :
            \A k \in 1..summary[1].pairwise_agreement[pr].paired_count :
                log[OkIndices(pr[1])[k]].tick = log[OkIndices(pr[2])[k]].tick

\* The bonus the agreement of the pair adds to the score of device name.
WithBonus(score, pr, name) ==
    IF /\ pr \in DOMAIN summary[1].pairwise_agreement
       /\ name \in {pr[1], pr[2]}
       /\ ~IsNone(summary[1].pairwise_agreement[pr].rmse)
    THEN FAdd(score, FDiv(One, FAdd(One, summary[1].pairwise_agreement[pr].rmse[1])))
    ELSE score

\* 2 * (ok_count / count) + 1 / (1 + std_dev) + the sum of 1 / (1 + rmse)
\* over the pairs of the device, in floating point.
ClaimedScore(name) ==
    LET st == summary[1].stats_by_ammeter[name]
        rate == IF st.count = 0 THEN Zero ELSE FDiv(Float(st.ok_count), Float(st.count))
        spread == IF IsNone(st.std_dev) THEN Zero ELSE st.std_dev[1]
        own == FAdd(FMul(Float(2), rate), FDiv(One, FAdd(One, spread)))
    IN  WithBonus(WithBonus(WithBonus(own, <<"circutor", "entes">>, name),
                            <<"circutor", "greenlee">>, name),
                  <<"entes", "greenlee">>, name)

\* C27: the ranking lists every device of the statistics exactly once, in
\* non-increasing order of the score.
C27_RankedByScore ==
    pc = "analysed" =>
        LET ranking == summary[1].reliability_ranking
        IN  /\ Len(ranking) = Cardinality(DOMAIN summary[1].stats_by_ammeter)
            /\ Range(ranking) = DOMAIN summary[1].stats_by_ammeter
            /\ \A i \in 1..Len(ranking), j \in 1..Len(ranking) :
                   i < j => QLeq(ClaimedScore(ranking[j]), ClaimedScore(ranking[i]))

C27_Witness ==
    /\ pc = "analysed"
    /\ Len(summary[1].reliability_ranking) = 3
    /\ summary[1].reliability_ranking[1] = "entes"
    /\ summary[1].reliability_ranking[3] = "greenlee"
    /\ ClaimedScore("entes") # ClaimedScore("circutor")
    /\ ClaimedScore("circutor") # ClaimedScore("greenlee")
    /\ summary[1].stats_by_ammeter["greenlee"].ok_count = 2
    /\ summary[1].stats_by_ammeter["greenlee"].count = 3

\* The same Measurements of each device, the devices configured in another
\* order: entes, greenlee, circutor.
Reconfigured(ms) ==
    SelectSeq(ms, LAMBDA m : m.ammeter = "entes")
    \o SelectSeq(ms, LAMBDA m : m.ammeter = "greenlee")
    \o SelectSeq(ms, LAMBDA m : m.ammeter = "circutor")

\* C28 as stated: the ranking of the same per-device Measurements is the
\* same whatever order the devices were configured in.
C28_RankingIgnoresConfiguredOrder ==
    pc = "analysed" =>
        summary[1].reliability_ranking = Summary(Reconfigured(out))[1].reliability_ranking

====
